---- MODULE Spec2Model ----
(***************************************************************************)
(* Model of src/app.py: the four-stage content pipeline                    *)
(*   scrape_google_news -> construct_viral_prompt -> call_together_api     *)
(*   -> parse_generated_content, driven by main().                         *)
(*                                                                         *)
(* A text is a sequence of characters; a character is a one-character      *)
(* string.  A string of more than one character inside a text is a fixed   *)
(* literal of the source (a template fragment, an input value) kept as one *)
(* atom: it holds no whitespace-sensitive position the code looks at.      *)
(***************************************************************************)
EXTENDS Integers, Sequences, FiniteSets, TLC

\* ------------------------------------------------------------------ bounds
MaxChunks == 4
MaxItems == 4
MaxRequested == 3

\* ------------------------------------------------------- characters, texts
Whitespace == {" ", "\t", "\n", "\r"}
Digits == {"0", "1", "2", "3", "4", "5", "6", "7", "8", "9"}

IsSpace(c) == c \in Whitespace

Min(a, b) == IF a <= b THEN a ELSE b

\* str.lower() on the letters the day pattern names (re.IGNORECASE).
Lower(c) ==
    CASE c = "D" -> "d"
      [] c = "A" -> "a"
      [] c = "Y" -> "y"
      [] OTHER -> c

\* content[a:b] with Python's 0-based half-open positions.
Slice(s, a, b) == IF b <= a THEN <<>> ELSE SubSeq(s, a + 1, b)

RECURSIVE LStrip(_)
LStrip(s) ==
    IF s # <<>> /\ IsSpace(Head(s)) THEN LStrip(Tail(s)) ELSE s

RECURSIVE RStrip(_)
RStrip(s) ==
    IF s # <<>> /\ IsSpace(s[Len(s)]) THEN RStrip(SubSeq(s, 1, Len(s) - 1)) ELSE s

\* str.strip(): every leading and trailing whitespace character goes.
Strip(s) == RStrip(LStrip(s))

\* re.sub(r'^\n+', '', s)
RECURSIVE SubLeadingNewlines(_)
SubLeadingNewlines(s) ==
    IF s # <<>> /\ Head(s) = "\n" THEN SubLeadingNewlines(Tail(s)) ELSE s

\* re.sub(r'\n+$', '', s)
RECURSIVE SubTrailingNewlines(_)
SubTrailingNewlines(s) ==
    IF s # <<>> /\ s[Len(s)] = "\n"
    THEN SubTrailingNewlines(SubSeq(s, 1, Len(s) - 1))
    ELSE s

\* re.sub(r'\s+', ' ', s): each maximal whitespace run becomes one space.
RECURSIVE CollapseWhitespace(_)
CollapseWhitespace(s) ==
    IF s = <<>> THEN <<>>
    ELSE IF IsSpace(Head(s))
         THEN <<" ">> \o CollapseWhitespace(LStrip(s))
         ELSE <<Head(s)>> \o CollapseWhitespace(Tail(s))

\* --------------------------------------------------- parse_generated_content
\* The literal prefix of day_pattern, r'\*\*Day ', lower-cased.
DayPrefix == <<"*", "*", "d", "a", "y", " ">>

\* First 0-based position >= p whose character is not in set cs (or Len(s)).
RECURSIVE RunEnd(_, _, _)
RunEnd(s, p, cs) ==
    IF p < Len(s) /\ s[p + 1] \in cs THEN RunEnd(s, p + 1, cs) ELSE p

NonStar(s) == {s[k] : k \in 1..Len(s)} \ {"*"}

\* re.match of day_pattern at 0-based position p: \*\*Day (\d+):[^*]*\*\*
\* Every quantifier is greedy and is followed by a character outside its
\* class, so backtracking never finds another match.
MatchAt(s, p) ==
    LET ds == p + Len(DayPrefix)
        de == RunEnd(s, ds, Digits)
        be == RunEnd(s, de + 1, NonStar(s))
        ok == /\ ds <= Len(s)
              /\ \A k \in 1..Len(DayPrefix) : Lower(s[p + k]) = DayPrefix[k]
              /\ de > ds
              /\ de < Len(s) /\ s[de + 1] = ":"
              /\ be + 2 <= Len(s)
              /\ s[be + 1] = "*" /\ s[be + 2] = "*"
    IN  IF ok
        THEN [ok |-> TRUE, start |-> p, end |-> be + 2, day_num |-> Slice(s, ds, de)]
        ELSE [ok |-> FALSE, start |-> p, end |-> p, day_num |-> <<>>]

\* list(re.finditer(day_pattern, content, re.IGNORECASE)): leftmost,
\* non-overlapping matches, the scan resuming at the end of each match.
RECURSIVE FindIter(_, _)
FindIter(s, p) ==
    IF p >= Len(s) THEN <<>>
    ELSE LET m == MatchAt(s, p)
         IN  IF m.ok THEN <<m>> \o FindIter(s, m.end) ELSE FindIter(s, p + 1)

DayMatches(content) == FindIter(content, 0)

\* end_pos: start of the next match, or len(content) for the last one.
EndPos(content, matches, i) ==
    IF i + 1 <= Len(matches) THEN matches[i + 1].start ELSE Len(content)

PostContentNoStrip(content, start_pos, end_pos) ==
    SubTrailingNewlines(SubLeadingNewlines(Slice(content, start_pos, end_pos)))

\* post_content = content[start_pos:end_pos].strip(), then the two re.sub.
PostContent(content, start_pos, end_pos) ==
    SubTrailingNewlines(SubLeadingNewlines(Strip(Slice(content, start_pos, end_pos))))

HasKey(posts, k) == \E j \in 1..Len(posts) : posts[j].day_num = k

DictSetFirstWins(posts, k, v) ==
    IF HasKey(posts, k) THEN posts
    ELSE Append(posts, [day_num |-> k, content |-> v])

\* posts[k] = v on a dict: a new key is appended in insertion order, an
\* existing key keeps its place and takes the new value.
DictSet(posts, k, v) ==
    IF HasKey(posts, k)
    THEN [j \in 1..Len(posts) |->
            IF posts[j].day_num = k THEN [day_num |-> k, content |-> v] ELSE posts[j]]
    ELSE Append(posts, [day_num |-> k, content |-> v])

\* posts[k]
DictGet(posts, k) ==
    LET j == CHOOSE j \in 1..Len(posts) : posts[j].day_num = k IN posts[j].content

Keys(posts) == {posts[j].day_num : j \in 1..Len(posts)}

\* One turn of the loop "for i, match in enumerate(day_matches)", i from 1.
ParseIteration(content, matches, i, posts) ==
    DictSet(posts, matches[i].day_num,
            PostContent(content, matches[i].end, EndPos(content, matches, i)))

RECURSIVE ParseLoop(_, _, _, _)
ParseLoop(content, matches, i, posts) ==
    IF i > Len(matches) THEN posts
    ELSE ParseLoop(content, matches, i + 1, ParseIteration(content, matches, i, posts))

parse_generated_content(content) == ParseLoop(content, DayMatches(content), 1, <<>>)

\* -------------------------------------------------------- scrape_google_news
\* What item.find('title') gives for one <item>: no title element at all
\* (None), or an element with its .text.
NoTitle == [has_title |-> FALSE, text |-> <<>>]
TitleOf(t) == [has_title |-> TRUE, text |-> t]

\* clean_title = re.sub(r'\s+', ' ', title.text.strip())
CleanTitle(text) == CollapseWhitespace(Strip(text))

\* "if title and title.text": a found element is truthy, its text is truthy
\* when it is not the empty string (tested before it is stripped).
TitleTruthy(item) == item.has_title /\ item.text # <<>>

RECURSIVE CollectHeadlines(_)
CollectHeadlines(items) ==
    IF items = <<>> THEN <<>>
    ELSE (IF TitleTruthy(Head(items)) THEN <<CleanTitle(Head(items).text)>> ELSE <<>>)
         \o CollectHeadlines(Tail(items))

TruncateOffByOne(items, max_headlines) ==
    SubSeq(items, 1, Min(max_headlines + 1, Len(items)))

\* items[:max_headlines] for max_headlines >= 0
Truncate(items, max_headlines) == SubSeq(items, 1, Min(max_headlines, Len(items)))

\* The news source answers with a feed of items, or the call raises
\* (requests.RequestException: "transport_error"), or the body cannot be
\* read as a feed (any other exception: "parse_error").
scrape_google_news(source, max_headlines) ==
    CASE source.kind = "ok" ->
           [ok |-> TRUE, error |-> "None", message |-> "",
            headlines |-> CollectHeadlines(Truncate(source.items, max_headlines))]
      [] source.kind = "transport_error" ->
           [ok |-> FALSE, error |-> "NewsScraperError",
            message |-> "Failed to fetch news", headlines |-> <<>>]
      [] OTHER ->
           [ok |-> FALSE, error |-> "NewsScraperError",
            message |-> "Failed to parse news feed", headlines |-> <<>>]

\* ---------------------------------------------------- construct_viral_prompt
\* headlines_text = "\n".join(...): each headline after a bullet character
\* and a space (the atom "BULLET "), the lines joined by "\n".
RECURSIVE HeadlinesText(_)
HeadlinesText(headlines) ==
    IF headlines = <<>> THEN <<>>
    ELSE <<"BULLET ">> \o Head(headlines)
         \o (IF Len(headlines) > 1 THEN <<"\n">> ELSE <<>>)
         \o HeadlinesText(Tail(headlines))

\* The f-string template: its fixed text is kept as four atoms.
construct_viral_prompt(b, rp, ind, hl) ==
    <<"TEMPLATE_INTRO Industry: ">> \o ind
    \o <<"\nProfessional Bio: ">> \o b
    \o <<"\nVoice Reference (Recent Post): ">> \o rp
    \o <<"\n\nCURRENT MARKET INTELLIGENCE:\n">> \o HeadlinesText(hl)
    \o <<"\n\nTEMPLATE_REQUIREMENTS">>

\* The three placeholder headlines main() substitutes for an empty list.
FallbackHeadlines(ind) ==
    << <<"Latest innovations in ">> \o ind,
       <<"Market trends shaping ">> \o ind,
       <<"Leadership challenges in ">> \o ind >>

\* --------------------------------------------------------- call_together_api
\* The endpoint's answer: the SDK call raises, or it returns a list of
\* choices, each holding message.content (a text, or None).
NoneContent == [is_none |-> TRUE, text |-> <<>>]
ContentOf(t) == [is_none |-> FALSE, text |-> t]

ApiFailure(msg) ==
    [ok |-> FALSE, error |-> "TogetherAPIError", message |-> msg, content |-> <<>>]

call_together_api_leaky(resp) ==
    CASE resp.kind = "raises" -> ApiFailure("API request failed")
      [] resp.choices = <<>> -> ApiFailure("No content generated by API")
      [] resp.choices[1].is_none ->
           [ok |-> FALSE, error |-> "AttributeError", message |-> "", content |-> <<>>]
      [] OTHER ->
           [ok |-> TRUE, error |-> "None", message |-> "",
            content |-> Strip(resp.choices[1].text)]

\* Everything inside the try block that raises (the SDK call, the explicit
\* raise for zero choices, .strip() on a None content) reaches
\* "except Exception" and leaves as TogetherAPIError.
call_together_api(resp) ==
    CASE resp.kind = "raises" -> ApiFailure("API request failed")
      [] resp.choices = <<>> -> ApiFailure("API request failed: No content generated by API")
      [] resp.choices[1].is_none -> ApiFailure("API request failed")
      [] OTHER ->
           [ok |-> TRUE, error |-> "None", message |-> "",
            content |-> Strip(resp.choices[1].text)]

\* ------------------------------------------------------------- presentation
\* int(day_num) of a digit string
RECURSIVE ToInt(_)
ToInt(ds) ==
    IF ds = <<>> THEN 0
    ELSE 10 * ToInt(SubSeq(ds, 1, Len(ds) - 1))
         + (CHOOSE n \in 0..9 : ToString(n) = ds[Len(ds)])

\* Insert key k into a list already ordered by int(): after every key whose
\* int is <= int(k), which keeps sorted() stable.
RECURSIVE InsertByInt(_, _)
InsertByInt(sorted, k) ==
    IF sorted = <<>> THEN <<k>>
    ELSE IF ToInt(Head(sorted)) <= ToInt(k)
         THEN <<Head(sorted)>> \o InsertByInt(Tail(sorted), k)
         ELSE <<k>> \o sorted

RECURSIVE SortLoop(_, _)
SortLoop(ks, acc) ==
    IF ks = <<>> THEN acc ELSE SortLoop(Tail(ks), InsertByInt(acc, Head(ks)))

KeyList(posts) == [j \in 1..Len(posts) |-> posts[j].day_num]

SortedKeysUnsorted(posts) == KeyList(posts)

\* sorted(posts.keys(), key=int)
SortedKeys(posts) == SortLoop(KeyList(posts), <<>>)

\* The most tabs main() ever opens: range(1, min(8, len(posts) + 1)).
MaxTabs == 7

TabCount(posts) == Min(MaxTabs, Len(posts))

\* zip(sorted(posts.keys(), key=int), tabs): tab i, labelled "Day i", shows
\* the post of the i-th key in int order; keys beyond the tabs are not shown.
TabsShown(posts) ==
    [i \in 1..TabCount(posts) |->
        [tab |-> i,
         day_num |-> SortedKeys(posts)[i],
         content |-> DictGet(posts, SortedKeys(posts)[i])]]

\* -------------------------------------------------------------------- state
VARIABLES
    bio, recent_post, industry, api_key,   \* the form's four required fields
    max_headlines,                         \* the slider / the argument of fetch
    stage,                                 \* where main() is
    rejected,                              \* the validation message was shown
    error,                                 \* the exception kind main() reported
    source,                                \* what the news source answered
    headlines,                             \* headlines (after any substitution)
    used_fallback,                         \* the placeholder headlines were taken
    prompt,                                \* the composed prompt
    response,                              \* what the generation endpoint answered
    generated_content,                     \* generated_content / the text parsed
    posts,                                 \* the dict parse builds
    loop_i,                                \* markers the parse loop has handled
    returned,                              \* the function under test has returned
    displayed, tabs_shown, raw_shown,      \* what the results section shows
    fetch_calls, api_calls, parse_calls    \* calls made to each component

vars == <<bio, recent_post, industry, api_key, max_headlines, stage, rejected,
          error, source, headlines, used_fallback, prompt, response,
          generated_content, posts, loop_i, returned, displayed, tabs_shown,
          raw_shown, fetch_calls, api_calls, parse_calls>>

inputVars == <<bio, recent_post, industry, api_key, max_headlines>>
fetchVars == <<source, headlines, used_fallback, fetch_calls>>
genVars == <<response, generated_content, api_calls>>
parseVars == <<posts, loop_i, parse_calls>>
showVars == <<displayed, tabs_shown, raw_shown>>

NoSource == [kind |-> "none", items |-> <<>>]
NoResponse == [kind |-> "none", choices |-> <<>>]

\* The state before the form is submitted, in parts.
NoInputs == bio = <<>> /\ recent_post = <<>> /\ industry = <<>> /\ api_key = <<>>
AtStart == stage = "Idle" /\ rejected = FALSE /\ error = "None" /\ returned = FALSE
NothingFetched == headlines = <<>> /\ used_fallback = FALSE /\ fetch_calls = 0
NothingGenerated == prompt = <<>> /\ response = NoResponse /\ api_calls = 0
NothingParsed == posts = <<>> /\ loop_i = 0 /\ parse_calls = 0
NothingShown == displayed = FALSE /\ tabs_shown = <<>> /\ raw_shown = <<>>

\* ------------------------------------------------------------------- inputs
\* st.slider("Industry News Headlines", min_value=5, max_value=20, value=12)
SliderMin == 5
SliderMax == 20
SliderDefault == 12

BioValues == {<<>>, <<"B">>}
RecentPostValues == {<<>>, <<"P">>}
IndustryValues == {<<>>, <<"fintech">>}
ApiKeyValues == {<<>>, <<"K">>}

\* A heading of the shape the prompt asks for: **Day <n>:<title>**
Marker(n, title) == <<"*", "*", "D", "a", "y", " ">> \o n \o <<":">> \o title \o <<"*", "*">>

DayPost(n) == Marker(<<n>>, <<" ", "T", n>>) \o <<"\n", "P", n, "\n", "\n">>

RECURSIVE DaysDoc(_)
DaysDoc(ns) == IF ns = <<>> THEN <<>> ELSE DayPost(Head(ns)) \o DaysDoc(Tail(ns))

Doc7 == DaysDoc(<<"1", "2", "3", "4", "5", "6", "7">>)
Doc7Shuffled == <<"I", "\n">> \o DaysDoc(<<"3", "1", "2", "7", "6", "4", "5">>)
Doc9 == DaysDoc(<<"1", "2", "3", "4", "5", "6", "7", "8", "9">>)
DocNoMarker == <<" ", "D", "a", "y", " ", "1", ":", " ", "*", "T", "*", "\n", "H", "\n">>
DocDuplicate == DayPost("1") \o DayPost("2") \o Marker(<<"1">>, <<>>) \o <<" ", "Q">>
DocTwoDigits == Marker(<<"1", "0">>, <<>>) \o <<"X">> \o DayPost("9") \o DayPost("2")

Documents == {Doc7, Doc7Shuffled, Doc9, DocNoMarker, DocDuplicate, DocTwoDigits, <<>>}

Responses ==
    {[kind |-> "raises", choices |-> <<>>],
     [kind |-> "choices", choices |-> <<>>],
     [kind |-> "choices", choices |-> <<NoneContent>>],
     [kind |-> "choices", choices |-> <<ContentOf(Doc7), ContentOf(DocNoMarker)>>]}
    \cup {[kind |-> "choices", choices |-> <<ContentOf(d)>>] : d \in Documents}

FeedABC == <<TitleOf(<<"A">>), TitleOf(<<"B">>), TitleOf(<<"C">>)>>
FeedSix ==
    <<TitleOf(<<"A">>), TitleOf(<<" ", "B", "\t", "\n", "C", " ">>), NoTitle,
      TitleOf(<<"A">>), TitleOf(<<"D", " ", " ", "E">>), TitleOf(<<"F">>)>>
FeedUnusable == <<NoTitle, TitleOf(<<>>)>>
FeedBlankTitle == <<TitleOf(<<" ">>)>>

Sources ==
    {[kind |-> "transport_error", items |-> <<>>],
     [kind |-> "parse_error", items |-> <<>>]}
    \cup {[kind |-> "ok", items |-> f] :
            f \in {<<>>, FeedABC, FeedSix, FeedUnusable, FeedBlankTitle}}

\* ------------------------------------------------------------------- main()
Init ==
    /\ NoInputs /\ max_headlines = SliderDefault
    /\ AtStart
    /\ source = NoSource /\ NothingFetched
    /\ NothingGenerated /\ generated_content = <<>>
    /\ NothingParsed /\ NothingShown

SubmitWithoutKeyCheck ==
    /\ stage = "Idle" /\ ~rejected
    /\ \E b \in BioValues, rp \in RecentPostValues, ind \in IndustryValues,
          k \in ApiKeyValues, m \in SliderMin..SliderMax :
          /\ bio' = b /\ recent_post' = rp /\ industry' = ind /\ api_key' = k
          /\ max_headlines' = m
          /\ IF b # <<>> /\ rp # <<>> /\ ind # <<>>
             THEN stage' = "Fetching" /\ rejected' = FALSE
             ELSE stage' = "Idle" /\ rejected' = TRUE
    /\ UNCHANGED <<error, fetchVars, prompt, genVars, parseVars, returned, showVars>>

\* "if submitted": the form's values arrive; "if not all([bio, recent_post,
\* industry, api_key])" shows the validation message and returns.
Submit ==
    /\ stage = "Idle" /\ ~rejected
    /\ \E b \in BioValues, rp \in RecentPostValues, ind \in IndustryValues,
          k \in ApiKeyValues, m \in SliderMin..SliderMax :
          /\ bio' = b /\ recent_post' = rp /\ industry' = ind /\ api_key' = k
          /\ max_headlines' = m
          /\ IF b # <<>> /\ rp # <<>> /\ ind # <<>> /\ k # <<>>
             THEN stage' = "Fetching" /\ rejected' = FALSE
             ELSE stage' = "Idle" /\ rejected' = TRUE
    /\ UNCHANGED <<error, fetchVars, prompt, genVars, parseVars, returned, showVars>>

FetchWithoutPlaceholders ==
    /\ stage = "Fetching"
    /\ \E src \in Sources :
          LET r == scrape_google_news(src, max_headlines)
          IN  /\ source' = src
              /\ fetch_calls' = fetch_calls + 1
              /\ IF r.ok
                 THEN /\ headlines' = r.headlines
                      /\ used_fallback' = FALSE
                      /\ stage' = "Composing"
                      /\ error' = error
                 ELSE /\ stage' = "Failed"
                      /\ error' = r.error
                      /\ UNCHANGED <<headlines, used_fallback>>
    /\ UNCHANGED <<inputVars, rejected, prompt, genVars, parseVars, returned, showVars>>

\* Step 1: headlines = scrape_google_news(industry, max_headlines); an empty
\* list is replaced by the three placeholders; NewsScraperError leaves the
\* try block for its handler, which reports it and ends the run.
Fetch ==
    /\ stage = "Fetching"
    /\ \E src \in Sources :
          LET r == scrape_google_news(src, max_headlines)
          IN  /\ source' = src
              /\ fetch_calls' = fetch_calls + 1
              /\ IF r.ok
                 THEN /\ headlines' = IF r.headlines = <<>>
                                      THEN FallbackHeadlines(industry)
                                      ELSE r.headlines
                      /\ used_fallback' = (r.headlines = <<>>)
                      /\ stage' = "Composing"
                      /\ error' = error
                 ELSE /\ stage' = "Failed"
                      /\ error' = r.error
                      /\ UNCHANGED <<headlines, used_fallback>>
    /\ UNCHANGED <<inputVars, rejected, prompt, genVars, parseVars, returned, showVars>>

\* Step 2: prompt = construct_viral_prompt(bio, recent_post, industry, headlines)
Compose ==
    /\ stage = "Composing"
    /\ prompt' = construct_viral_prompt(bio, recent_post, industry, headlines)
    /\ stage' = "Generating"
    /\ UNCHANGED <<inputVars, rejected, error, fetchVars, genVars, parseVars,
                   returned, showVars>>

GenerateRetrying ==
    /\ stage = "Generating"
    /\ api_calls < 2
    /\ \E resp \in Responses :
          LET r == call_together_api(resp)
          IN  /\ response' = resp
              /\ api_calls' = api_calls + 1
              /\ IF r.ok
                 THEN /\ generated_content' = r.content
                      /\ stage' = "Parsing"
                      /\ error' = error
                 ELSE /\ stage' = IF api_calls = 0 THEN "Generating" ELSE "Failed"
                      /\ error' = r.error
                      /\ UNCHANGED generated_content
    /\ UNCHANGED <<inputVars, rejected, fetchVars, prompt, parseVars, returned, showVars>>

\* Step 3: generated_content = call_together_api(prompt, api_key, model); an
\* exception leaves the try block for its handler (TogetherAPIError, or the
\* last "except Exception"), which reports it and ends the run.
Generate ==
    /\ stage = "Generating"
    /\ \E resp \in Responses :
          LET r == call_together_api(resp)
          IN  /\ response' = resp
              /\ api_calls' = api_calls + 1
              /\ IF r.ok
                 THEN /\ generated_content' = r.content
                      /\ stage' = "Parsing"
                      /\ error' = error
                 ELSE /\ stage' = "Failed"
                      /\ error' = r.error
                      /\ UNCHANGED generated_content
    /\ UNCHANGED <<inputVars, rejected, fetchVars, prompt, parseVars, returned, showVars>>

ParseRejectingEmpty ==
    /\ stage = "Parsing"
    /\ posts' = parse_generated_content(generated_content)
    /\ loop_i' = Len(DayMatches(generated_content))
    /\ parse_calls' = parse_calls + 1
    /\ IF posts' = <<>>
       THEN stage' = "Failed" /\ error' = "Exception"
       ELSE stage' = "Done" /\ error' = error
    /\ UNCHANGED <<inputVars, rejected, fetchVars, prompt, genVars, returned, showVars>>

\* Step 4: posts = parse_generated_content(generated_content), then the
\* status "ready" and progress 100.
Parse ==
    /\ stage = "Parsing"
    /\ posts' = parse_generated_content(generated_content)
    /\ loop_i' = Len(DayMatches(generated_content))
    /\ parse_calls' = parse_calls + 1
    /\ stage' = "Done"
    /\ UNCHANGED <<inputVars, rejected, error, fetchVars, prompt, genVars,
                   returned, showVars>>

PresentTabsOnly ==
    /\ stage = "Done" /\ ~displayed
    /\ displayed' = TRUE
    /\ tabs_shown' = (IF posts # <<>> THEN TabsShown(posts) ELSE <<>>)
    /\ raw_shown' = <<>>
    /\ UNCHANGED <<inputVars, stage, rejected, error, fetchVars, prompt, genVars,
                   parseVars, returned>>

\* The results section: one tab per post in int order of the keys, or, for
\* an empty dict, the warning and the raw generated_content.
Present ==
    /\ stage = "Done" /\ ~displayed
    /\ displayed' = TRUE
    /\ IF posts # <<>>
       THEN tabs_shown' = TabsShown(posts) /\ raw_shown' = <<>>
       ELSE tabs_shown' = <<>> /\ raw_shown' = <<generated_content>>
    /\ UNCHANGED <<inputVars, stage, rejected, error, fetchVars, prompt, genVars,
                   parseVars, returned>>

Next == Submit \/ Fetch \/ Compose \/ Generate \/ Parse \/ Present

Spec == Init /\ [][Next]_vars

\* ------------------------------------- parse_generated_content on its own
\* Pieces the raw texts are put together from: whole headings (one with the
\* word Day in another case and no title), a heading left open, a stray
\* asterisk, and body characters.
Chunks ==
    {Marker(<<"1">>, <<"T">>),
     <<"*", "*", "d", "A", "Y", " ", "2", ":", "*", "*">>,
     <<"*", "*", "D", "a", "y", " ", "1", "0", ":">>,
     <<"*">>, <<"\n">>, <<" ">>, <<"H">>}

RECURSIVE ChunkTexts(_)
ChunkTexts(n) ==
    IF n = 0 THEN {<<>>}
    ELSE LET shorter == ChunkTexts(n - 1)
         IN  shorter \cup {t \o c : t \in shorter, c \in Chunks}

\* "**Day 1: Title**\nHello\n\n**Day 2: Title2**\nWorld"
ExampleText ==
    Marker(<<"1">>, <<" ", "T", "i", "t", "l", "e">>)
    \o <<"\n", "H", "e", "l", "l", "o", "\n", "\n">>
    \o Marker(<<"2">>, <<" ", "T", "i", "t", "l", "e", "2">>)
    \o <<"\n", "W", "o", "r", "l", "d">>

\* parse_generated_content is about to be called on any such text.
InitParse ==
    /\ NoInputs /\ max_headlines = SliderDefault
    /\ AtStart
    /\ source = NoSource /\ NothingFetched
    /\ NothingGenerated /\ generated_content \in ChunkTexts(MaxChunks) \cup {ExampleText}
    /\ NothingParsed /\ NothingShown

\* One turn of the for loop over day_matches.
ParseIter ==
    /\ ~returned
    /\ loop_i < Len(DayMatches(generated_content))
    /\ posts' = ParseIteration(generated_content, DayMatches(generated_content),
                               loop_i + 1, posts)
    /\ loop_i' = loop_i + 1
    /\ UNCHANGED <<inputVars, stage, rejected, error, fetchVars, prompt, genVars,
                   parse_calls, returned, showVars>>

\* return posts
ParseReturn ==
    /\ ~returned
    /\ loop_i = Len(DayMatches(generated_content))
    /\ returned' = TRUE
    /\ parse_calls' = parse_calls + 1
    /\ UNCHANGED <<inputVars, stage, rejected, error, fetchVars, prompt, genVars,
                   posts, loop_i, showVars>>

NextParse == ParseIter \/ ParseReturn

SpecParse == InitParse /\ [][NextParse]_vars

\* ------------------------------------------ scrape_google_news on its own
\* What one item's title element can hold.
Titles ==
    {NoTitle, TitleOf(<<>>), TitleOf(<<" ">>), TitleOf(<<"A">>),
     TitleOf(<<"\n", "A", " ", "\t", "B", " ">>), TitleOf(<<"B">>)}

RECURSIVE Feeds(_)
Feeds(n) ==
    IF n = 0 THEN {<<>>}
    ELSE LET shorter == Feeds(n - 1)
         IN  shorter \cup {Append(f, t) : f \in shorter, t \in Titles}

FeedSources ==
    {[kind |-> "transport_error", items |-> <<>>],
     [kind |-> "parse_error", items |-> <<>>]}
    \cup {[kind |-> "ok", items |-> f] : f \in Feeds(MaxItems)}

\* scrape_google_news is about to be called on any such feed.
InitFetch ==
    /\ NoInputs /\ max_headlines \in 0..MaxRequested
    /\ AtStart
    /\ source \in FeedSources /\ NothingFetched
    /\ NothingGenerated /\ generated_content = <<>>
    /\ NothingParsed /\ NothingShown

\* The call returns its list or raises NewsScraperError.
Scrape ==
    /\ ~returned
    /\ LET r == scrape_google_news(source, max_headlines)
       IN  /\ headlines' = r.headlines
           /\ error' = r.error
    /\ returned' = TRUE
    /\ fetch_calls' = fetch_calls + 1
    /\ UNCHANGED <<inputVars, stage, rejected, source, used_fallback, prompt,
                   genVars, parseVars, showVars>>

NextFetch == Scrape

SpecFetch == InitFetch /\ [][NextFetch]_vars

\* ================================================================== claims
\* The endpoint's answer is one generate cannot turn into a text.
FailingResponse(resp) ==
    \/ resp.kind = "raises"
    \/ resp.kind = "choices" /\ resp.choices = <<>>
    \/ resp.kind = "choices" /\ resp.choices # <<>> /\ resp.choices[1].is_none

FetchFailed == source.kind \in {"transport_error", "parse_error"}

\* C1: whenever the headline fetch fails with FetchError the run does not end
\* in Failed: the industry's placeholder headlines are substituted and the run
\* goes on to Composing and Generating.
C1_FetchErrorIsNotFatal ==
    FetchFailed =>
        /\ stage # "Failed"
        /\ used_fallback
        /\ headlines = FallbackHeadlines(industry)

\* C2: when generate fails with GenerationError the run ends in Failed, parse
\* is never entered, no calendar is produced or shown, and the generation
\* endpoint is requested at most once in the whole run.
C2_GenerationErrorIsFatal ==
    /\ api_calls <= 1
    /\ error = "TogetherAPIError" =>
          /\ stage = "Failed"
          /\ api_calls = 1
          /\ parse_calls = 0 /\ posts = <<>>
          /\ ~displayed /\ tabs_shown = <<>> /\ raw_shown = <<>>

C2_Witness ==
    /\ stage = "Failed" /\ error = "TogetherAPIError"
    /\ api_calls = 1 /\ FailingResponse(response)

\* The pipeline's order, and its two exits to Failed.
StageOrder ==
    {<<"Idle", "Fetching">>, <<"Fetching", "Composing">>,
     <<"Composing", "Generating">>, <<"Generating", "Parsing">>,
     <<"Parsing", "Done">>,
     <<"Fetching", "Failed">>, <<"Generating", "Failed">>}

\* C3: a run starts in Idle and moves only Idle -> Fetching -> Composing ->
\* Generating -> Parsing -> Done, one stage at a time; Done is entered only
\* from Parsing; an error is reported, and the sequence left, only from
\* Fetching and from Generating.
C3_StagesInOrder ==
    /\ stage = "Idle"
    /\ [][/\ stage' # stage => <<stage, stage'>> \in StageOrder
          /\ error' # error => stage \in {"Fetching", "Generating"} /\ stage' = "Failed"
          /\ stage' = "Failed" => error' # "None"]_vars

C3_Witness ==
    /\ stage = "Done" /\ displayed
    /\ fetch_calls = 1 /\ api_calls = 1 /\ parse_calls = 1
    /\ prompt # <<>> /\ error = "None"

\* Text s holds a heading somewhere: two asterisks, the word Day in any
\* case, a space, digits from 1-based position p + 7 to c, a colon, characters
\* other than the asterisk up to q, two asterisks.
ContainsMarker(s) ==
    \E p \in 0..Len(s) :
        /\ p + Len(DayPrefix) <= Len(s)
        /\ \A k \in 1..Len(DayPrefix) : Lower(s[p + k]) = DayPrefix[k]
        /\ \E c \in (p + 7)..Len(s) :
              /\ \A k \in (p + 7)..c : s[k] \in Digits
              /\ c + 1 <= Len(s) /\ s[c + 1] = ":"
              /\ \E q \in (c + 1)..Len(s) :
                    /\ \A k \in (c + 2)..q : s[k] # "*"
                    /\ q + 2 <= Len(s)
                    /\ s[q + 1] = "*" /\ s[q + 2] = "*"

\* C8: parse never fails and returns a mapping, the empty one for a text with
\* no marker; an empty mapping does not fail the run: it reaches Done and the
\* raw, unparsed text is what is shown.
C8_ParseNeverFails ==
    /\ stage = "Parsing" => error = "None"
    /\ parse_calls = 1 =>
          /\ stage = "Done" /\ error = "None"
          /\ ~ContainsMarker(generated_content) => posts = <<>>
          /\ ContainsMarker(generated_content) => posts # <<>>
    /\ (displayed /\ posts = <<>>) =>
          /\ stage = "Done" /\ error = "None"
          /\ raw_shown = <<generated_content>> /\ tabs_shown = <<>>

C8_Witness ==
    /\ displayed /\ stage = "Done" /\ posts = <<>>
    /\ generated_content # <<>> /\ ~ContainsMarker(generated_content)
    /\ raw_shown = <<generated_content>>

\* C9: generate fails with GenerationError whenever the response has an empty
\* choice list, and every failure of generate (the call raises, the response
\* is malformed, zero choices) reaches the caller as GenerationError and as no
\* other kind.
C9_GenerateFailsAsGenerationError ==
    /\ (response # NoResponse /\ FailingResponse(response)) =>
          /\ stage = "Failed" /\ error = "TogetherAPIError"
          /\ ~call_together_api(response).ok
    /\ (api_calls = 1 /\ stage = "Failed") => error = "TogetherAPIError"

C9_Witness ==
    /\ response.kind = "choices" /\ response.choices = <<>>
    /\ stage = "Failed" /\ error = "TogetherAPIError"

DayKeys7 == <<<<"1">>, <<"2">>, <<"3">>, <<"4">>, <<"5">>, <<"6">>, <<"7">>>>

EndToEndCase ==
    /\ source = [kind |-> "ok", items |-> FeedABC]
    /\ response.kind = "choices"
    /\ response.choices \in {<<ContentOf(Doc7)>>, <<ContentOf(Doc7Shuffled)>>}

\* C10: with a non-empty profile, a feed of three headlines and an endpoint
\* that returns a document with the seven markers Day 1 to Day 7, the run ends
\* in Done with exactly the 7 entries "1".."7", shown in ascending numeric
\* order, and the prompt is composed from the three fetched headlines.
C10_EndToEnd ==
    EndToEndCase =>
        /\ stage \in {"Parsing", "Done"} /\ error = "None"
        /\ bio # <<>> /\ recent_post # <<>> /\ industry # <<>>
        /\ headlines = <<<<"A">>, <<"B">>, <<"C">>>> /\ ~used_fallback
        /\ prompt = <<"TEMPLATE_INTRO Industry: ">> \o industry
                    \o <<"\nProfessional Bio: ">> \o bio
                    \o <<"\nVoice Reference (Recent Post): ">> \o recent_post
                    \o <<"\n\nCURRENT MARKET INTELLIGENCE:\n",
                         "BULLET ", "A", "\n", "BULLET ", "B", "\n", "BULLET ", "C",
                         "\n\nTEMPLATE_REQUIREMENTS">>
        /\ stage = "Done" =>
              /\ Len(posts) = 7
              /\ Keys(posts) = {DayKeys7[i] : i \in 1..7}
              /\ \A i \in 1..7 : DictGet(posts, DayKeys7[i]) = <<"P", DayKeys7[i][1]>>
        /\ displayed =>
              /\ raw_shown = <<>>
              /\ Len(tabs_shown) = 7
              /\ \A i \in 1..7 :
                    tabs_shown[i] = [tab |-> i, day_num |-> DayKeys7[i],
                                     content |-> <<"P", DayKeys7[i][1]>>]

C10_Witness ==
    /\ EndToEndCase /\ displayed /\ stage = "Done"
    /\ response.choices = <<ContentOf(Doc7Shuffled)>>
    /\ Len(tabs_shown) = 7

\* ------------------------------------------------- claims about the parser
AllSpace(s) == \A k \in 1..Len(s) : IsSpace(s[k])

\* body is raw without its leading and its trailing whitespace: a piece of
\* raw with only whitespace before and after it, itself empty or beginning and
\* ending with a character that is not whitespace.
IsWhitespaceTrimOf(body, raw) ==
    \E a \in 1..(Len(raw) + 1) :
        /\ a + Len(body) - 1 <= Len(raw)
        /\ body = SubSeq(raw, a, a + Len(body) - 1)
        /\ AllSpace(SubSeq(raw, 1, a - 1))
        /\ AllSpace(SubSeq(raw, a + Len(body), Len(raw)))
        /\ body # <<>> => ~IsSpace(body[1]) /\ ~IsSpace(body[Len(body)])

\* raw without its leading run and its trailing run of line breaks.
NewlinesTrimmed(raw) == SubTrailingNewlines(SubLeadingNewlines(raw))

\* raw without its leading and trailing blank lines, a blank line being one
\* that holds nothing but whitespace.
RECURSIVE DropLeadingBlankLines(_)
DropLeadingBlankLines(s) ==
    IF \E k \in 1..Len(s) : s[k] = "\n" /\ AllSpace(SubSeq(s, 1, k))
    THEN LET k == CHOOSE k \in 1..Len(s) :
                     s[k] = "\n" /\ \A j \in 1..(k - 1) : s[j] # "\n"
         IN  DropLeadingBlankLines(SubSeq(s, k + 1, Len(s)))
    ELSE IF AllSpace(s) THEN <<>> ELSE s

RECURSIVE DropTrailingBlankLines(_)
DropTrailingBlankLines(s) ==
    IF \E k \in 1..Len(s) : s[k] = "\n" /\ AllSpace(SubSeq(s, k, Len(s)))
    THEN LET k == CHOOSE k \in 1..Len(s) :
                     s[k] = "\n" /\ \A j \in (k + 1)..Len(s) : s[j] # "\n"
         IN  DropTrailingBlankLines(SubSeq(s, 1, k - 1))
    ELSE IF AllSpace(s) THEN <<>> ELSE s

BlankLinesTrimmed(raw) == DropTrailingBlankLines(DropLeadingBlankLines(raw))

\* The text between the end of marker i and the start of marker i + 1 (the
\* end of the text for the last marker).
RawBody(content, i) ==
    LET ms == DayMatches(content)
    IN  Slice(content, ms[i].end, EndPos(content, ms, i))

ExamplePosts ==
    <<[day_num |-> <<"1">>, content |-> <<"H", "e", "l", "l", "o">>],
      [day_num |-> <<"2">>, content |-> <<"W", "o", "r", "l", "d">>]>>

\* The body the loop has just stored for marker loop_i.
StoredBody == DictGet(posts, DayMatches(generated_content)[loop_i].day_num)

\* C4 as stated: the body parse associates with the i-th marker is the text
\* between marker i and marker i + 1 with its leading run and its trailing run
\* of blank lines removed (read either as runs of line breaks, or as runs of
\* whitespace-only lines), and nothing else.
C4_BodyIsBlankLineTrimmed ==
    loop_i >= 1 =>
        \/ StoredBody = NewlinesTrimmed(RawBody(generated_content, loop_i))
        \/ StoredBody = BlankLinesTrimmed(RawBody(generated_content, loop_i))

\* C4 (amended): the body parse associates with the i-th marker is the text
\* between the end of marker i and the start of marker i + 1 (the end of the
\* text for the last marker) with all its leading and trailing whitespace
\* removed; the example text yields {"1": "Hello", "2": "World"}.
C4_BodyIsWhitespaceTrimmed ==
    /\ loop_i >= 1 =>
          IsWhitespaceTrimOf(StoredBody, RawBody(generated_content, loop_i))
    /\ (returned /\ generated_content = ExampleText) => posts = ExamplePosts

C4_Witness ==
    /\ loop_i >= 1 /\ loop_i < Len(DayMatches(generated_content))
    /\ StoredBody # <<>>
    /\ StoredBody # NewlinesTrimmed(RawBody(generated_content, loop_i))
    /\ IsWhitespaceTrimOf(StoredBody, RawBody(generated_content, loop_i))

\* The markers of the text that carry key k, by position in the scan.
MarkersOf(content, k) ==
    {i \in 1..Len(DayMatches(content)) : DayMatches(content)[i].day_num = k}

Last(S) == CHOOSE i \in S : \A j \in S : j <= i

\* C7: when several markers carry the same dayKey the mapping holds exactly
\* one entry for that key, with the body of the last such marker in document
\* order; the mapping has one entry per distinct dayKey found.
C7_LastMarkerWins ==
    returned =>
        /\ \A a, b \in 1..Len(posts) : posts[a].day_num = posts[b].day_num => a = b
        /\ Keys(posts) =
              {DayMatches(generated_content)[i].day_num :
                  i \in 1..Len(DayMatches(generated_content))}
        /\ \A k \in Keys(posts) :
              IsWhitespaceTrimOf(DictGet(posts, k),
                  RawBody(generated_content, Last(MarkersOf(generated_content, k))))

C7_Witness ==
    /\ returned
    /\ \E k \in Keys(posts) :
          /\ Cardinality(MarkersOf(generated_content, k)) >= 2
          /\ \E i \in MarkersOf(generated_content, k) :
                ~IsWhitespaceTrimOf(DictGet(posts, k), RawBody(generated_content, i))
    /\ Len(posts) >= 2

\* ------------------------------------------------ claims about the fetcher
Normalized(h) ==
    /\ h # <<>>
    /\ ~IsSpace(h[1]) /\ ~IsSpace(h[Len(h)])
    /\ \A j \in 1..Len(h) :
          IsSpace(h[j]) => h[j] = " " /\ (j > 1 => ~IsSpace(h[j - 1]))

\* An item whose title is not empty once trimmed.
Usable(item) == item.has_title /\ Strip(item.text) # <<>>

\* C5: every headline fetch returns is non-empty, has no leading or trailing
\* whitespace and has every whitespace run collapsed to one space; an item
\* whose title is empty after trimming contributes no entry.
C5_HeadlinesNormalized ==
    (returned /\ source.kind = "ok") =>
        /\ \A k \in 1..Len(headlines) : Normalized(headlines[k])
        /\ Len(headlines) <=
              Cardinality({i \in 1..Len(source.items) : Usable(source.items[i])})

Count(seq, x) == Cardinality({k \in 1..Len(seq) : seq[k] = x})

\* C6: fetch returns at most maxHeadlines headlines, each the cleaned title of
\* an item of the feed, in the order of their items (an increasing choice f of
\* items), and equal titles are kept as often as they were taken.
C6_AtMostMaxInFeedOrder ==
    (returned /\ source.kind = "ok") =>
        /\ Len(headlines) <= max_headlines
        /\ \E f \in [1..Len(headlines) -> 1..Len(source.items)] :
              /\ \A a, b \in 1..Len(headlines) : a < b => f[a] < f[b]
              /\ \A a \in 1..Len(headlines) :
                    /\ source.items[f[a]].has_title
                    /\ headlines[a] = CleanTitle(source.items[f[a]].text)
        /\ Len(headlines) =
              Cardinality({i \in 1..Min(max_headlines, Len(source.items)) :
                              TitleTruthy(source.items[i])})

C6_Witness ==
    /\ returned /\ source.kind = "ok"
    /\ Len(source.items) > max_headlines
    /\ Len(headlines) = max_headlines
    /\ max_headlines >= 3
    /\ headlines[1] = headlines[3] /\ headlines[1] # headlines[2]

\* The cleaned titles of the items that pass test, in feed order.
TitlesPassing(items, test(_)) ==
    LET chosen == SelectSeq(items, test)
    IN  [k \in 1..Len(chosen) |-> CleanTitle(chosen[k].text)]

FirstN(seq, n) == SubSeq(seq, 1, Min(n, Len(seq)))

\* C11: fetch returns the normalized titles of the feed's usable items, in
\* document order, up to maxHeadlines: the first maxHeadlines of them, so the
\* result is shorter than maxHeadlines only when the feed has fewer usable
\* items, wherever the unusable items sit.  A usable item is read either as
\* one whose title text is not empty or as one whose title is not empty once
\* trimmed.
C11_FirstMaxUsableTitles ==
    (returned /\ source.kind = "ok") =>
        \/ headlines = FirstN(TitlesPassing(source.items, TitleTruthy), max_headlines)
        \/ headlines = FirstN(TitlesPassing(source.items, Usable), max_headlines)

\* ------------------------------------------------ claims about main()'s run
\* fetch returned without error and took no headline from the feed.
FetchedNothing ==
    /\ source.kind = "ok"
    /\ \A i \in 1..Min(max_headlines, Len(source.items)) :
          ~TitleTruthy(source.items[i])

PastFetching == stage \in {"Composing", "Generating", "Parsing", "Done"}

\* C12: in every run the headline list passed to compose, and so the one
\* behind every generation request, is not empty: when fetch returns an empty
\* sequence without error, exactly the three placeholder headlines made from
\* the industry replace it before Composing.
C12_ComposeGetsHeadlines ==
    /\ (PastFetching \/ prompt # <<>> \/ api_calls >= 1) => headlines # <<>>
    /\ prompt # <<>> =>
          prompt = construct_viral_prompt(bio, recent_post, industry, headlines)
    /\ (PastFetching /\ FetchedNothing) =>
          /\ used_fallback
          /\ headlines = << <<"Latest innovations in ">> \o industry,
                            <<"Market trends shaping ">> \o industry,
                            <<"Leadership challenges in ">> \o industry >>
    /\ (PastFetching /\ ~FetchedNothing) =>
          /\ ~used_fallback
          /\ headlines = CollectHeadlines(Truncate(source.items, max_headlines))

C12_Witness ==
    /\ api_calls = 1 /\ used_fallback
    /\ source.kind = "ok" /\ source.items # <<>>
    /\ Len(headlines) = 3 /\ industry # <<>>
    /\ prompt = construct_viral_prompt(bio, recent_post, industry, headlines)

AllFieldsFilled ==
    bio # <<>> /\ recent_post # <<>> /\ industry # <<>> /\ api_key # <<>>

\* C13: a submitted run leaves Idle only when bio, recentPost, industry and
\* credential are all non-empty; when any of them is empty the run stops
\* before Fetching, so neither the news source nor the generation endpoint is
\* ever called with an empty required field.
C13_ValidatedBeforeFetching ==
    /\ stage # "Idle" => AllFieldsFilled /\ ~rejected
    /\ rejected =>
          /\ ~AllFieldsFilled
          /\ stage = "Idle" /\ error = "None"
          /\ fetch_calls = 0 /\ source = NoSource
          /\ api_calls = 0 /\ response = NoResponse /\ prompt = <<>>
          /\ parse_calls = 0 /\ ~displayed
    /\ (fetch_calls >= 1 \/ source # NoSource) => AllFieldsFilled
    /\ (api_calls >= 1 \/ response # NoResponse) => AllFieldsFilled

C13_Witness ==
    /\ rejected /\ stage = "Idle"
    /\ api_key = <<>> /\ bio # <<>> /\ recent_post # <<>> /\ industry # <<>>
    /\ fetch_calls = 0 /\ api_calls = 0

====
